---- MODULE Spec2Model ----
(***************************************************************************)
(* Model of the restic wrapper (src/restic/__init__.py, error.py):         *)
(* construction of a Restic instance (configuration validation, probe,     *)
(* optional auto-initialisation) and command execution (argument vector,   *)
(* child environment, exit-code classification).                           *)
(*                                                                         *)
(* Conventions.  An Optional[T] value is a sequence of length at most one: *)
(* <<>> is None and <<v>> is v.  A dict is a function whose DOMAIN is its  *)
(* key set.  A message (an f-string) is the sequence of its literal and    *)
(* interpolated pieces, so "the message contains s" is "s is one of the    *)
(* pieces".  The literals of the source are Chinese; they are rendered in  *)
(* English here, one distinct rendering per distinct literal.              *)
(***************************************************************************)
EXTENDS Integers, Sequences, FiniteSets, TLC

\* Bounds of the model.
MaxInvokes == 2      \* invocations made on a constructed instance
MaxArgs == 2         \* length of a caller-supplied args list

None == <<>>
Some(v) == <<v>>

VARIABLES
    config,      \* self.config: the ResticConfig given to the constructor
    auto_init,   \* self.auto_init
    system,      \* platform.system() of the host
    environ,     \* os.environ of the host
    lookup,      \* how the host answers shutil.which(config.path)
    pc,          \* "new", "ready" (constructor returned), "failed" (it raised)
    raised,      \* Optional: the exception the latest constructor/_exec call let escape
    spawned,     \* every subprocess.run call so far, in order: [argv, env]
    probe,       \* Optional: summary of the constructor's probe call (`cat config`)
    init_call,   \* Optional: summary of the constructor's `init` call
    last,        \* Optional: the record of the latest _exec call
    invokes      \* number of _exec calls made by the caller after construction

vars == <<config, auto_init, system, environ, lookup, pc, raised, spawned, probe,
          init_call, last, invokes>>

----------------------------------------------------------------------------
\* error.py: the exception hierarchy.

Parent(cls) ==
    CASE cls = "ResticError" -> "Exception"
      [] cls = "ResticConfigError" -> "ResticError"
      [] cls = "ResticRepositoryError" -> "ResticError"
      [] cls = "ResticPasswordError" -> "ResticRepositoryError"
      [] cls = "ResticCommandError" -> "ResticError"
      [] OTHER -> "Exception"     \* AttributeError, OSError, TimeoutExpired, ...

RECURSIVE IsInstance(_, _)
IsInstance(kind, cls) ==
    IF kind = cls THEN TRUE
    ELSE IF kind = "Exception" THEN FALSE
    ELSE IsInstance(Parent(kind), cls)

Error(kind, msg) == [kind |-> kind, msg |-> msg]

----------------------------------------------------------------------------
\* Python helpers.

\* dict.get(key, default)
Get(d, key, default) == IF key \in DOMAIN d THEN d[key] ELSE default

\* d[key] = value
SetItem(d, key, value) ==
    [k \in DOMAIN d \cup {key} |-> IF k = key THEN value ELSE d[k]]

\* a.update(b)
Update(a, b) ==
    [k \in DOMAIN a \cup DOMAIN b |-> IF k \in DOMAIN b THEN b[k] ELSE a[k]]

EmptyDict == [k \in {} |-> ""]

----------------------------------------------------------------------------
\* Restic._validate_restic_config

\* shutil.which(path): the resolved path, None, or an exception of the lookup.
\* `answer` is the host's behaviour: "found", "missing" or "raises"; the empty
\* name is never found.
shutil_which(path, answer) ==
    IF answer = "raises" THEN [exc |-> Some("OSError"), value |-> None]
    ELSE IF answer = "found" /\ path # "" THEN [exc |-> None, value |-> Some(path)]
    ELSE [exc |-> None, value |-> None]

\* validate_try without the password check of lines 75-76.
validate_try_no_password_check(cfg, answer) ==
    LET w == shutil_which(cfg.path, answer) IN
    IF w.exc # None THEN Some(Error(w.exc[1], <<"lookup failed">>))
    ELSE IF w.value = None
        THEN Some(Error("ResticConfigError", <<"restic binary '", cfg.path, "' does not exist">>))
    ELSE IF cfg.repository = ""
        THEN Some(Error("ResticConfigError", <<"restic repository not provided">>))
    ELSE None

\* The exception raised inside the try block (lines 66-76), if any.
validate_try(cfg, answer) ==
    LET w == shutil_which(cfg.path, answer) IN
    IF w.exc # None THEN Some(Error(w.exc[1], <<"lookup failed">>))
    ELSE IF w.value = None
        THEN Some(Error("ResticConfigError", <<"restic binary '", cfg.path, "' does not exist">>))
    ELSE IF cfg.repository = ""
        THEN Some(Error("ResticConfigError", <<"restic repository not provided">>))
    ELSE IF cfg.password = ""
        THEN Some(Error("ResticConfigError", <<"restic password not provided">>))
    ELSE None

\* The exception _validate_restic_config raises (None: it returns).
validate_restic_config(cfg, answer) ==
    LET e == validate_try(cfg, answer) IN
    IF e = None THEN None
    ELSE IF IsInstance(e[1].kind, "ResticConfigError") THEN e
    ELSE IF IsInstance(e[1].kind, "Exception")
        THEN Some(Error("ResticConfigError", <<"restic config error: ">> \o e[1].msg))
    ELSE e

----------------------------------------------------------------------------
\* Restic._get_env

\* get_env with the PREFIX test ahead of the Windows test.
get_env_prefix_first(cfg, sys, env) ==
    LET base == SetItem(SetItem(EmptyDict, "RESTIC_REPOSITORY", cfg.repository),
                        "RESTIC_PASSWORD", cfg.password)
    IN
    IF Get(env, "PREFIX", "") # "" THEN
        SetItem(SetItem(base,
            "PATH", Get(env, "PATH", "/data/data/com.termux/files/usr/bin")),
            "TMPDIR", Get(env, "TMPDIR", "/data/data/com.termux/files/usr/tmp"))
    ELSE IF sys = "Windows" THEN
        SetItem(SetItem(SetItem(SetItem(base,
            "PATH", Get(env, "PATH", "")),
            "LOCALAPPDATA", Get(env, "LOCALAPPDATA", "~/AppData/Local")),
            "TMP", Get(env, "TMP", "~/AppData/Local/Temp")),
            "TEMP", Get(env, "TEMP", "~/AppData/Local/Temp"))
    ELSE IF sys \in {"Linux", "Darwin"} THEN
        SetItem(SetItem(base,
            "PATH", Get(env, "PATH", "/usr/local/bin:/usr/bin:/bin")),
            "TMPDIR", Get(env, "TMPDIR", "/tmp"))
    ELSE base

\* get_env with the last branch taken on every remaining platform.
get_env_unix_by_default(cfg, sys, env) ==
    LET base == SetItem(SetItem(EmptyDict, "RESTIC_REPOSITORY", cfg.repository),
                        "RESTIC_PASSWORD", cfg.password)
    IN
    IF sys = "Windows" THEN
        SetItem(SetItem(SetItem(SetItem(base,
            "PATH", Get(env, "PATH", "")),
            "LOCALAPPDATA", Get(env, "LOCALAPPDATA", "~/AppData/Local")),
            "TMP", Get(env, "TMP", "~/AppData/Local/Temp")),
            "TEMP", Get(env, "TEMP", "~/AppData/Local/Temp"))
    ELSE IF Get(env, "PREFIX", "") # "" THEN
        SetItem(SetItem(base,
            "PATH", Get(env, "PATH", "/data/data/com.termux/files/usr/bin")),
            "TMPDIR", Get(env, "TMPDIR", "/data/data/com.termux/files/usr/tmp"))
    ELSE
        SetItem(SetItem(base,
            "PATH", Get(env, "PATH", "/usr/local/bin:/usr/bin:/bin")),
            "TMPDIR", Get(env, "TMPDIR", "/tmp"))

get_env(cfg, sys, env) ==
    LET base == SetItem(SetItem(EmptyDict, "RESTIC_REPOSITORY", cfg.repository),
                        "RESTIC_PASSWORD", cfg.password)
    IN
    IF sys = "Windows" THEN
        SetItem(SetItem(SetItem(SetItem(base,
            "PATH", Get(env, "PATH", "")),
            "LOCALAPPDATA", Get(env, "LOCALAPPDATA", "~/AppData/Local")),
            "TMP", Get(env, "TMP", "~/AppData/Local/Temp")),
            "TEMP", Get(env, "TEMP", "~/AppData/Local/Temp"))
    ELSE IF Get(env, "PREFIX", "") # "" THEN
        SetItem(SetItem(base,
            "PATH", Get(env, "PATH", "/data/data/com.termux/files/usr/bin")),
            "TMPDIR", Get(env, "TMPDIR", "/data/data/com.termux/files/usr/tmp"))
    ELSE IF sys \in {"Linux", "Darwin"} THEN
        SetItem(SetItem(base,
            "PATH", Get(env, "PATH", "/usr/local/bin:/usr/bin:/bin")),
            "TMPDIR", Get(env, "TMPDIR", "/tmp"))
    ELSE base

----------------------------------------------------------------------------
\* Restic._handle_command_error

\* json.loads(text) for the stderr texts the model draws from: the Python type of
\* the decoded value (with the value of its "message" key for an object), or
\* JSONDecodeError.
json_loads(text) ==
    CASE text = "{\"message\":\"wrong password\"}"
            -> [exc |-> None, type |-> "dict", message |-> Some("wrong password")]
      [] text = "{\"code\":1}"
            -> [exc |-> None, type |-> "dict", message |-> None]
      [] text = "[1]"
            -> [exc |-> None, type |-> "list", message |-> None]
      [] text = "5"
            -> [exc |-> None, type |-> "int", message |-> None]
      [] text = "\"oops\""
            -> [exc |-> None, type |-> "str", message |-> None]
      [] OTHER
            -> [exc |-> Some("JSONDecodeError"), type |-> "", message |-> None]

\* error_messages.get(return_code, default), lines 197-207
error_messages(return_code) ==
    CASE return_code = 1 -> "command failed"
      [] return_code = 2 -> "Go runtime error"
      [] return_code = 3 -> "command failed"
      [] return_code = 10 -> "repository does not exist"
      [] return_code = 11 -> "unable to lock repository"
      [] return_code = 12 -> "password error"
      [] return_code = 130 -> "command interrupted"
      [] OTHER -> "unexpected error occurred"

base_error_msg(command, return_code) ==
    <<"exec ", command, " failed: ", error_messages(return_code)>>

\* Lines 209-221: the value of full_error_msg when line 223 is reached, or the
\* exception that escapes the `if stderr:` block (only JSONDecodeError is caught).
full_error_msg(command, return_code, stderr) ==
    LET base == base_error_msg(command, return_code)
        j == json_loads(stderr)
    IN
    IF stderr = "" THEN [exc |-> None, msg |-> base]
    ELSE IF j.exc # None
        THEN [exc |-> None, msg |-> base \o <<", error info: ", stderr>>]
    ELSE IF j.type = "dict"
        THEN [exc |-> None,
              msg |-> base \o <<", error info: ",
                                IF j.message = None THEN "unknown error" ELSE j.message[1]>>]
    ELSE [exc |-> Some(Error("AttributeError",
                             <<"'", j.type, "' object has no attribute 'get'">>)),
          msg |-> base]

\* The match statement, lines 226-234: the class raised for a return code.
match_return_code(return_code) ==
    CASE return_code = 2 -> "ResticError"
      [] return_code \in {10, 11} -> "ResticRepositoryError"
      [] return_code = 12 -> "ResticPasswordError"
      [] OTHER -> "ResticCommandError"

\* The message given to the raised exception, lines 228-234.
raise_msg(command, return_code, stderr) == base_error_msg(command, return_code)

\* The exception _handle_command_error raises (it never returns).
handle_command_error(command, return_code, stderr) ==
    LET full == full_error_msg(command, return_code, stderr) IN
    IF full.exc # None THEN full.exc[1]
    ELSE Error(match_return_code(return_code), raise_msg(command, return_code, stderr))

----------------------------------------------------------------------------
\* Restic._exec

\* build_cmd with the flag put ahead of the caller's arguments.
build_cmd_flag_before_args(cfg, command, args) ==
    <<cfg.path, command, "--json">>
        \o (IF args # None /\ args[1] # <<>> THEN args[1] ELSE <<>>)

\* The argument vector, lines 113-118.
build_cmd(cfg, command, args) ==
    <<cfg.path, command>>
        \o (IF args # None /\ args[1] # <<>> THEN args[1] ELSE <<>>)
        \o <<"--json">>

\* build_env with the merge the wrong way round: computed values win.
build_env_computed_wins(computed, env) ==
    IF env # None /\ DOMAIN env[1] # {} THEN Update(env[1], computed) ELSE computed

\* The environment given to the child, lines 125-126: the computed
\* environment with the caller's overrides applied.
build_env(computed, env) ==
    IF env # None /\ DOMAIN env[1] # {} THEN Update(computed, env[1]) ELSE computed

\* What subprocess.run did: the process ran to an exit code, was killed at
\* the timeout, or could not be started.
Exited(rc, out, err) == [type |-> "exit", returncode |-> rc, stdout |-> out, stderr |-> err]
TimedOut == [type |-> "timeout", returncode |-> 0, stdout |-> "", stderr |-> ""]
NotStarted == [type |-> "oserror", returncode |-> 0, stdout |-> "", stderr |-> ""]

\* Whether the child is still running when subprocess.run hands control back
\* (line 130): a child that exited is gone, at a timeout subprocess.run kills
\* the child and waits for it before raising TimeoutExpired, and a child that
\* could not be started never ran.
child_running(outcome) ==
    CASE outcome.type = "exit" -> FALSE
      [] outcome.type = "timeout" -> FALSE
      [] OTHER -> FALSE

\* exec_raises with TimeoutExpired left to the `except Exception` clause.
exec_raises_timeout_as_failure(command, outcome) ==
    CASE outcome.type \in {"timeout", "oserror"}
            -> Some(Error("ResticCommandError", <<"exec ", command, " failed: ", "OSError">>))
      [] OTHER
            -> IF outcome.returncode # 0
               THEN Some(handle_command_error(command, outcome.returncode, outcome.stderr))
               ELSE None

\* exec_raises taking any stderr output as a failure.
exec_raises_on_stderr(command, outcome) ==
    CASE outcome.type = "timeout"
            -> Some(Error("ResticCommandError", <<"exec ", command, " command timed out">>))
      [] outcome.type = "oserror"
            -> Some(Error("ResticCommandError", <<"exec ", command, " failed: ", "OSError">>))
      [] OTHER
            -> IF outcome.returncode # 0 \/ outcome.stderr # ""
               THEN Some(handle_command_error(command, outcome.returncode, outcome.stderr))
               ELSE None

\* The exception _exec raises for an outcome (None: it returns), lines 129-150.
exec_raises(command, outcome) ==
    CASE outcome.type = "timeout"
            -> Some(Error("ResticCommandError", <<"exec ", command, " command timed out">>))
      [] outcome.type = "oserror"
            -> Some(Error("ResticCommandError", <<"exec ", command, " failed: ", "OSError">>))
      [] OTHER
            -> IF outcome.returncode # 0
               THEN Some(handle_command_error(command, outcome.returncode, outcome.stderr))
               ELSE None

\* exec_returns with stderr appended to the result.
exec_returns_with_stderr(outcome) ==
    IF outcome.stderr = "" THEN outcome.stdout ELSE outcome.stdout \o outcome.stderr

\* args_after with the argument vector built in the caller's list.
args_after_extended_in_place(args) ==
    IF args # None /\ args[1] # <<>> THEN Some(Append(args[1], "--json")) ELSE args

\* The caller's args list when _exec ends, lines 113-118: cmd is a new list,
\* extended with the elements of args, and args itself is only read.
args_after(args) == args

\* The caller's env map when _exec ends, lines 123-126: _env is the dict
\* _get_env built, updated from env, and env itself is only read.
env_after(computed, env) == env

\* The value _exec returns for an outcome it does not raise on, line 152.
exec_returns(outcome) == outcome.stdout

\* One call of _exec: its inputs, what it handed to subprocess.run, what the
\* process did, and how the call ended.
exec(cfg, sys, host_env, command, args, env, timeout, outcome) ==
    LET r == exec_raises(command, outcome) IN
    [command |-> command, args |-> args, env |-> env, timeout |-> timeout,
     cmd |-> build_cmd(cfg, command, args),
     computed_env |-> get_env(cfg, sys, host_env),
     child_env |-> build_env(get_env(cfg, sys, host_env), env),
     args_after |-> args_after(args),
     env_after |-> env_after(get_env(cfg, sys, host_env), env),
     outcome |-> outcome,
     child_running |-> child_running(outcome),
     raised |-> r,
     returned |-> IF r = None THEN Some(exec_returns(outcome)) ELSE None]

----------------------------------------------------------------------------
\* Restic.__init__

\* on_exception with the ResticRepositoryError clause ahead of the
\* ResticPasswordError one.
on_exception_repository_first(kind, auto) ==
    IF IsInstance(kind, "ResticConfigError") THEN "raise"
    ELSE IF IsInstance(kind, "ResticRepositoryError")
        THEN (IF auto THEN "init" ELSE "raise")
    ELSE "raise"

\* on_exception without the auto_init branch.
on_exception_never_init(kind, auto) == "raise"

\* on_exception with the auto_init test dropped.
on_exception_always_init(kind, auto) ==
    IF IsInstance(kind, "ResticConfigError") THEN "raise"
    ELSE IF IsInstance(kind, "ResticPasswordError") THEN "raise"
    ELSE IF IsInstance(kind, "ResticRepositoryError") THEN "init"
    ELSE "raise"

\* on_exception with the last clause catching ResticError.
on_exception_catches_base(kind, auto) ==
    IF IsInstance(kind, "ResticConfigError") THEN "raise"
    ELSE IF IsInstance(kind, "ResticPasswordError") THEN "raise"
    ELSE IF IsInstance(kind, "ResticError")
        THEN (IF auto THEN "init" ELSE "raise")
    ELSE "raise"

\* The except clauses of lines 46-57, tried in order, for an exception of
\* class `kind` escaping the try block: re-raise it, or run `init`.
on_exception(kind, auto) ==
    IF IsInstance(kind, "ResticConfigError") THEN "raise"
    ELSE IF IsInstance(kind, "ResticPasswordError") THEN "raise"
    ELSE IF IsInstance(kind, "ResticRepositoryError")
        THEN (IF auto THEN "init" ELSE "raise")
    ELSE "raise"

\* after_init re-raising the probe's error when `init` fails.
after_init_reraises_probe_error(p, i) ==
    IF i.raised = None THEN [pc |-> "ready", raised |-> None]
    ELSE [pc |-> "failed", raised |-> p.raised]

\* How the constructor ends after the `init` call i made for the failed probe
\* call p, line 54: nothing follows the call, so the constructor returns when
\* it returns and raises what it raises.
after_init(p, i) ==
    IF i.raised = None THEN [pc |-> "ready", raised |-> None]
    ELSE [pc |-> "failed", raised |-> i.raised]

\* What the model keeps of a call made by the constructor: how the process
\* ended and what the call raised.
Summary(call) ==
    [type |-> call.outcome.type, returncode |-> call.outcome.returncode,
     raised |-> call.raised]

----------------------------------------------------------------------------
\* The inputs the model draws from.

Repositories == {"", "/srv/repo"}
Passwords == {"", "secret"}
Paths == {"restic", ""}
Configs == [repository : Repositories, password : Passwords, path : Paths]
Lookups == {"found", "missing", "raises"}

ExitCodes == {0, 1, 2, 3, 10, 11, 12, 130, 4, -9}
Stdouts == {"", "{\"id\":\"abc\"}"}
Stderrs == {"", "{\"message\":\"wrong password\"}", "{\"code\":1}",
            "not json", "[1]", "5", "\"oops\""}
\* A process that exits 0 wrote any of the stdout texts; a failing one wrote
\* nothing to stdout.  Either wrote any of the stderr texts.
Outcomes ==
    {Exited(0, out, err) : out \in Stdouts, err \in Stderrs}
        \cup {Exited(rc, "", err) : rc \in ExitCodes \ {0}, err \in Stderrs}
        \cup {TimedOut, NotStarted}

\* subprocess.run raises TimeoutExpired only when a timeout was given.
OutcomesFor(outs, timeout) == IF timeout = None THEN outs \ {TimedOut} ELSE outs

Commands == {"snapshots", "backup"}
ArgTokens == {"--tag", "daily"}
RECURSIVE ListsUpTo(_, _)
ListsUpTo(S, n) ==
    IF n = 0 THEN {<<>>}
    ELSE LET shorter == ListsUpTo(S, n - 1) IN
         shorter \cup {Append(l, x) : l \in shorter, x \in S}
ArgLists == {None} \cup {Some(l) : l \in ListsUpTo(ArgTokens, MaxArgs)}
Timeouts == {None, Some(30)}

\* The dicts whose keys are among DOMAIN V, each key k present with a value of V[k].
Dicts(V) ==
    UNION {{d \in [D -> UNION {V[k] : k \in D}] : \A k \in D : d[k] \in V[k]} :
           D \in SUBSET DOMAIN V}

HostKeys == {"PATH", "LOCALAPPDATA", "TMP", "TEMP", "TMPDIR", "PREFIX"}
HostValue ==
    [k \in HostKeys |-> IF k = "PREFIX" THEN {"", "/data/data/com.termux/files/usr"}
                        ELSE {"host:" \o k}]
Systems == {"Windows", "Linux", "Darwin", "FreeBSD"}

OverrideKeys == {"RESTIC_REPOSITORY", "RESTIC_PASSWORD", "PATH", "TMPDIR", "TMP", "LANG"}
OverrideValue == [k \in OverrideKeys |-> {"override:" \o k}]

----------------------------------------------------------------------------
\* The state machine.

InitWith(cfgs, autos, systems, environs, lookups) ==
    /\ config \in cfgs
    /\ auto_init \in autos
    /\ system \in systems
    /\ environ \in environs
    /\ lookup \in lookups
    /\ pc = "new"
    /\ raised = None
    /\ spawned = <<>>
    /\ probe = None
    /\ init_call = None
    /\ last = None
    /\ invokes = 0

\* Restic(config, auto_init), lines 37-57.  The probe and init processes end
\* in an outcome of `outs`.
Construct(outs) ==
    /\ pc = "new"
    /\ LET v == validate_restic_config(config, lookup) IN
       IF v # None
       THEN /\ pc' = "failed"
            /\ raised' = v
            /\ UNCHANGED <<spawned, probe, init_call, last>>
       ELSE \E po \in OutcomesFor(outs, None) :
           LET p == exec(config, system, environ, "cat", Some(<<"config">>), None, None, po)
           IN
           /\ probe' = Some(Summary(p))
           /\ IF p.raised = None
              THEN /\ pc' = "ready"
                   /\ raised' = None
                   /\ spawned' = <<p.cmd>>
                   /\ init_call' = None
                   /\ last' = Some(p)
              ELSE IF on_exception(p.raised[1].kind, auto_init) = "raise"
              THEN /\ pc' = "failed"
                   /\ raised' = p.raised
                   /\ spawned' = <<p.cmd>>
                   /\ init_call' = None
                   /\ last' = Some(p)
              ELSE \E io \in OutcomesFor(outs, None) :
                   LET i == exec(config, system, environ, "init", None, None, None, io)
                   IN
                   /\ pc' = after_init(p, i).pc
                   /\ raised' = after_init(p, i).raised
                   /\ spawned' = <<p.cmd, i.cmd>>
                   /\ init_call' = Some(Summary(i))
                   /\ last' = Some(i)
    /\ UNCHANGED <<config, auto_init, system, environ, lookup, invokes>>

\* A caller's self._exec(command, args, env, timeout) on a constructed
\* instance, lines 86-152.
Invoke(cmds, arglists, envs, timeouts, outs) ==
    /\ pc = "ready"
    /\ invokes < MaxInvokes
    /\ \E command \in cmds, args \in arglists, env \in envs, timeout \in timeouts :
        \E o \in OutcomesFor(outs, timeout) :
            LET c == exec(config, system, environ, command, args, env, timeout, o) IN
            /\ last' = Some(c)
            /\ raised' = c.raised
            /\ spawned' = Append(spawned, c.cmd)
    /\ invokes' = invokes + 1
    /\ UNCHANGED <<config, auto_init, system, environ, lookup, pc, probe, init_call>>

\* Construction and error classification: every configuration and every
\* process outcome, on one host, with plain invocations.
Init ==
    InitWith(Configs, BOOLEAN, {"Linux"}, {SetItem(EmptyDict, "PATH", "host:PATH")},
             Lookups)

Next ==
    \/ Construct(Outcomes)
    \/ Invoke({"snapshots"}, {None}, {None}, Timeouts, Outcomes)

Spec == Init /\ [][Next]_vars

ValidConfig == [repository |-> "/srv/repo", password |-> "secret", path |-> "restic"]
Success == Exited(0, "{\"id\":\"abc\"}", "")
PathOverride == SetItem(EmptyDict, "PATH", "override:PATH")

\* Environment construction: every host platform and host environment, with
\* processes that succeed.
InitEnv ==
    InitWith({ValidConfig}, {FALSE}, Systems, Dicts(HostValue), {"found"})

NextEnv ==
    \/ Construct({Success})
    \/ Invoke(Commands, {None}, {None, Some(PathOverride)}, {None}, {Success})

SpecEnv == InitEnv /\ [][NextEnv]_vars

\* Environment overrides: every override map, on every host platform with a
\* few host environments, with processes that succeed.
FewEnvirons ==
    {EmptyDict,
     [k \in {"PATH", "TMPDIR", "TMP"} |-> "host:" \o k],
     [k \in {"PATH", "PREFIX"} |->
         IF k = "PREFIX" THEN "/data/data/com.termux/files/usr" ELSE "host:" \o k]}

InitOverride ==
    InitWith({ValidConfig}, {FALSE}, Systems, FewEnvirons, {"found"})

NextOverride ==
    \/ Construct({Success})
    \/ Invoke({"snapshots"}, {None},
              {None} \cup {Some(d) : d \in Dicts(OverrideValue)},
              {None}, {Success})

SpecOverride == InitOverride /\ [][NextOverride]_vars

\* The host's environment changes between two calls of the wrapper (os.environ
\* is read anew by every _get_env, lines 164-177).
HostChange(environs) ==
    /\ \E e \in environs \ {environ} : environ' = e
    /\ UNCHANGED <<config, auto_init, system, lookup, pc, raised, spawned, probe,
                   init_call, last, invokes>>

\* Calls: an auto_init instance, every args list, with and without an
\* override, succeeding and failing processes, on a host whose environment
\* changes.
LangOverride == SetItem(EmptyDict, "LANG", "override:LANG")
Missing == Exited(10, "", "not json")
CallEnvirons ==
    {[k \in {"PATH"} |-> "host:PATH"],
     [k \in {"PATH", "TMPDIR"} |-> "host:" \o k]}

InitCalls ==
    InitWith({ValidConfig}, {TRUE}, {"Linux"}, CallEnvirons, {"found"})

NextCalls ==
    \/ Construct({Success, Missing})
    \/ Invoke({"snapshots"}, ArgLists, {None, Some(LangOverride)}, {None},
              {Success, Missing})
    \/ HostChange(CallEnvirons)

SpecCalls == InitCalls /\ [][NextCalls]_vars

----------------------------------------------------------------------------
\* Properties.

\* The latest _exec call ended with the process exiting non-zero.
LastFailedExit ==
    /\ last # None
    /\ last[1].outcome.type = "exit"
    /\ last[1].outcome.returncode # 0

\* The kind the exit-code table of the specification gives a non-zero code.
TableKind(rc) ==
    IF rc = 2 THEN "ResticError"
    ELSE IF rc = 10 \/ rc = 11 THEN "ResticRepositoryError"
    ELSE IF rc = 12 THEN "ResticPasswordError"
    ELSE "ResticCommandError"

\* C1: whenever the spawned process exits with a non-zero code, the call
\* raises an error whose class is exactly the one the table gives that code
\* (2 -> ResticError, 10/11 -> ResticRepositoryError, 12 -> ResticPasswordError,
\* any other -> ResticCommandError).
C1_KindByExitCode ==
    LastFailedExit =>
        /\ last[1].raised # None
        /\ last[1].raised[1].kind = TableKind(last[1].outcome.returncode)

\* C2: whenever the process exits non-zero with non-empty stderr, the message
\* of the raised error contains the `message` field of stderr when stderr is
\* a JSON object carrying one, and the raw stderr text when it is not JSON.
C2_MessageCarriesDetail ==
    (LastFailedExit /\ last[1].outcome.stderr # "") =>
        LET j == json_loads(last[1].outcome.stderr)
            pieces == IF last[1].raised = None THEN {}
                      ELSE {last[1].raised[1].msg[n] : n \in DOMAIN last[1].raised[1].msg}
        IN
        /\ (j.exc = None /\ j.type = "dict" /\ j.message # None) => j.message[1] \in pieces
        /\ j.exc # None => last[1].outcome.stderr \in pieces

\* C3: whenever the process exits non-zero, whatever stderr holds, the call
\* raises an error of the typed taxonomy (ResticError or a subclass), and the
\* class is the one fixed by the exit code.
C3_AlwaysClassified ==
    LastFailedExit =>
        /\ last[1].raised # None
        /\ IsInstance(last[1].raised[1].kind, "ResticError")
        /\ \A err \in Stderrs :
             handle_command_error(last[1].command, last[1].outcome.returncode, err).kind
                 = last[1].raised[1].kind

----------------------------------------------------------------------------
\* Construction.

\* The subprocess.run calls made by the constructor (the caller's come after).
ConstructionSpawned == SubSeq(spawned, 1, Len(spawned) - invokes)

ProbeCmd == <<config.path, "cat", "config", "--json">>
InitCmd == <<config.path, "init", "--json">>

\* The constructor ran the probe and the probe call raised an error of class cls.
ProbeRaised(cls) ==
    /\ probe # None
    /\ probe[1].raised # None
    /\ IsInstance(probe[1].raised[1].kind, cls)

\* shutil.which has no path to give for config.path (it returns None or throws).
Unresolvable == lookup # "found" \/ config.path = ""

\* C4: once the constructor has run on a configuration with an empty
\* repository, an empty password or an unresolvable executable, it has failed
\* with ResticConfigError and no process was spawned, whatever auto_init is.
C4_InvalidConfigNeverSpawns ==
    (pc # "new" /\ (config.repository = "" \/ config.password = "" \/ Unresolvable)) =>
        /\ pc = "failed"
        /\ raised # None
        /\ raised[1].kind = "ResticConfigError"
        /\ spawned = <<>>
        /\ probe = None
        /\ init_call = None

\* Only the password is missing, auto_init is set, and the constructor has run.
C4_Witness ==
    /\ pc = "failed"
    /\ auto_init
    /\ config.repository # "" /\ config.password = "" /\ ~Unresolvable
    /\ raised # None /\ raised[1].kind = "ResticConfigError"

\* C5: when the probe raises ResticPasswordError, the constructor fails with
\* that very error and the probe is the only process it spawned: `init` is
\* never issued, with auto_init set or not.
C5_PasswordErrorNeverInits ==
    ProbeRaised("ResticPasswordError") =>
        /\ pc = "failed"
        /\ raised = probe[1].raised
        /\ ConstructionSpawned = <<ProbeCmd>>
        /\ init_call = None

C5_Witness ==
    /\ ProbeRaised("ResticPasswordError")
    /\ probe[1].returncode = 12
    /\ auto_init
    /\ pc = "failed"

\* C6: with auto_init set, when the probe raises a ResticRepositoryError that
\* is not a ResticPasswordError, the constructor spawned exactly the probe and
\* then one `init`; and when that `init` exited 0 the constructor returned
\* without raising.
C6_AutoInitAfterRepositoryError ==
    (auto_init /\ ProbeRaised("ResticRepositoryError")
               /\ ~ProbeRaised("ResticPasswordError")) =>
        /\ ConstructionSpawned = <<ProbeCmd, InitCmd>>
        /\ init_call # None
        /\ (init_call[1].type = "exit" /\ init_call[1].returncode = 0) =>
               /\ pc = "ready"
               /\ init_call[1].raised = None
               /\ invokes = 0 => raised = None

C6_Witness ==
    /\ auto_init
    /\ ProbeRaised("ResticRepositoryError")
    /\ probe[1].returncode = 10
    /\ init_call # None /\ init_call[1].type = "exit" /\ init_call[1].returncode = 0
    /\ pc = "ready"
    /\ invokes = 0

\* C7: with auto_init unset, when the probe raises a ResticRepositoryError the
\* constructor fails with that same error, and the probe is the only process
\* it spawned.
C7_NoAutoInitPropagates ==
    (~auto_init /\ ProbeRaised("ResticRepositoryError")) =>
        /\ pc = "failed"
        /\ raised = probe[1].raised
        /\ IsInstance(raised[1].kind, "ResticRepositoryError")
        /\ ConstructionSpawned = <<ProbeCmd>>
        /\ init_call = None

C7_Witness ==
    /\ ~auto_init
    /\ ProbeRaised("ResticRepositoryError")
    /\ probe[1].returncode = 10
    /\ pc = "failed"
    /\ spawned = <<ProbeCmd>>

\* C8: the constructor issues `init` only when the probe exited with code 10
\* (repository does not exist); a probe ending any other way, code 11 (lock
\* not acquired) included, never leads to `init`.
C8_InitOnlyWhenRepositoryMissing ==
    init_call # None =>
        /\ probe # None
        /\ probe[1].type = "exit"
        /\ probe[1].returncode = 10

----------------------------------------------------------------------------
\* The child environment.

Credentials(cfg) ==
    [k \in {"RESTIC_REPOSITORY", "RESTIC_PASSWORD"} |->
        IF k = "RESTIC_REPOSITORY" THEN cfg.repository ELSE cfg.password]

UnrecognizedPlatform == system \notin {"Windows", "Linux", "Darwin"}

\* os.environ.get("PREFIX") is truthy
PrefixSet == "PREFIX" \in DOMAIN environ /\ environ["PREFIX"] # ""

\* C9 as stated: on an unrecognized platform the environment computed for a
\* call holds the two credential variables and nothing else, whatever the
\* host environment holds, PREFIX included.
C9_UnrecognizedPlatformCredentialsOnly ==
    (last # None /\ UnrecognizedPlatform) =>
        last[1].computed_env = Credentials(config)

\* C9 as amended: on an unrecognized platform the computed environment holds
\* the two credential variables and nothing else when PREFIX is unset or
\* empty in the host environment; when PREFIX is non-empty it holds, besides
\* them, exactly PATH and TMPDIR.
C9_UnrecognizedPlatformUnlessPrefix ==
    (last # None /\ UnrecognizedPlatform) =>
        /\ ~PrefixSet => last[1].computed_env = Credentials(config)
        /\ PrefixSet =>
            /\ DOMAIN last[1].computed_env =
                   {"RESTIC_REPOSITORY", "RESTIC_PASSWORD", "PATH", "TMPDIR"}
            /\ \A k \in {"RESTIC_REPOSITORY", "RESTIC_PASSWORD"} :
                   last[1].computed_env[k] = Credentials(config)[k]

\* An unrecognized platform whose host environment holds PATH, TMPDIR and an
\* empty PREFIX, after a caller's invocation.
C9_Witness ==
    /\ last # None
    /\ invokes > 0
    /\ system = "FreeBSD"
    /\ {"PATH", "TMPDIR", "PREFIX"} \subseteq DOMAIN environ
    /\ environ["PREFIX"] = ""
    /\ DOMAIN last[1].computed_env = {"RESTIC_REPOSITORY", "RESTIC_PASSWORD"}

\* The override map of a call, {} when none was given.
Overrides(call) == IF call.env = None THEN EmptyDict ELSE call.env[1]

\* C10: the environment passed to the subprocess holds, for every key of the
\* caller's overrides, the override value, and for every other key the
\* computed value; it holds no other key.
C10_OverridesMergedLast ==
    last # None =>
        LET call == last[1]
            ov == Overrides(call)
        IN
        /\ DOMAIN call.child_env = DOMAIN call.computed_env \cup DOMAIN ov
        /\ \A k \in DOMAIN ov : call.child_env[k] = ov[k]
        /\ \A k \in DOMAIN call.computed_env \ DOMAIN ov :
               call.child_env[k] = call.computed_env[k]

\* A call overriding the password, PATH and a key the wrapper never sets.
C10_Witness ==
    /\ last # None
    /\ DOMAIN Overrides(last[1]) = {"RESTIC_PASSWORD", "PATH", "LANG"}
    /\ last[1].computed_env["PATH"] = "host:PATH"
    /\ last[1].child_env["PATH"] = "override:PATH"
    /\ last[1].child_env["RESTIC_PASSWORD"] = "override:RESTIC_PASSWORD"
    /\ last[1].child_env["RESTIC_REPOSITORY"] = config.repository

----------------------------------------------------------------------------
\* Execution.

\* The pieces of the message of the error the latest call raised.
LastMessagePieces ==
    IF last = None \/ last[1].raised = None THEN {}
    ELSE {last[1].raised[1].msg[n] : n \in DOMAIN last[1].raised[1].msg}

C12_ProbeSuccessIsReady ==
    (probe # None /\ probe[1].type = "exit" /\ probe[1].returncode = 0) =>
        /\ pc = "ready"
        /\ probe[1].raised = None
        /\ ConstructionSpawned = <<ProbeCmd>>
        /\ init_call = None
        /\ invokes = 0 => raised = None

\* The probe exited 0 after writing a warning to stderr, auto_init set.
C12_Witness ==
    /\ probe # None /\ probe[1].type = "exit" /\ probe[1].returncode = 0
    /\ auto_init
    /\ invokes = 0
    /\ last # None /\ last[1].outcome.stderr = "not json"
    /\ pc = "ready"
    /\ spawned = <<ProbeCmd>>

\* C13: a call returns (and raises nothing) exactly when the process started,
\* did not time out and exited with code 0, and it then returns the captured
\* stdout unchanged, whatever stderr holds; otherwise it raises and returns
\* nothing.
C13_ReturnsStdoutIffExitZero ==
    last # None =>
        LET call == last[1]
            ok == call.outcome.type = "exit" /\ call.outcome.returncode = 0
        IN
        /\ (call.raised = None) <=> ok
        /\ (call.returned # None) <=> ok
        /\ ok => call.returned = Some(call.outcome.stdout)

\* A caller's invocation that exited 0 with output on stdout and on stderr.
C13_Witness ==
    /\ last # None
    /\ invokes > 0
    /\ last[1].outcome.type = "exit" /\ last[1].outcome.returncode = 0
    /\ last[1].outcome.stderr = "[1]"
    /\ last[1].outcome.stdout = "{\"id\":\"abc\"}"
    /\ last[1].returned = Some("{\"id\":\"abc\"}")
    /\ raised = None

\* The fallback the specification documents for a Windows variable.
WindowsFallback(k) ==
    IF k = "PATH" THEN ""
    ELSE IF k = "LOCALAPPDATA" THEN "~/AppData/Local"
    ELSE "~/AppData/Local/Temp"

\* C14: on Windows the computed environment holds the two credentials and
\* PATH, LOCALAPPDATA, TMP and TEMP, each with the host's value when the host
\* sets it and its fallback otherwise, and no TMPDIR; PREFIX changes nothing.
C14_WindowsEnvironment ==
    (last # None /\ system = "Windows") =>
        LET e == last[1].computed_env IN
        /\ DOMAIN e = {"RESTIC_REPOSITORY", "RESTIC_PASSWORD",
                       "PATH", "LOCALAPPDATA", "TMP", "TEMP"}
        /\ \A k \in {"PATH", "LOCALAPPDATA", "TMP", "TEMP"} :
               e[k] = IF k \in DOMAIN environ THEN environ[k] ELSE WindowsFallback(k)
        /\ e["RESTIC_REPOSITORY"] = config.repository
        /\ e["RESTIC_PASSWORD"] = config.password

\* Windows with PREFIX and TEMP set and TMP, PATH and LOCALAPPDATA unset.
C14_Witness ==
    /\ last # None
    /\ system = "Windows"
    /\ DOMAIN environ = {"PREFIX", "TEMP", "TMPDIR"}
    /\ environ["PREFIX"] # ""
    /\ last[1].computed_env["TMP"] = "~/AppData/Local/Temp"
    /\ last[1].computed_env["TEMP"] = "host:TEMP"
    /\ last[1].computed_env["PATH"] = ""

\* C15: when the probe raises an error that is not a ResticRepositoryError
\* (so not a ResticPasswordError either), the constructor fails with that
\* same error and the probe is the only process it spawned, with auto_init
\* set or not.
C15_OtherProbeErrorsPropagate ==
    (probe # None /\ probe[1].raised # None
                  /\ ~IsInstance(probe[1].raised[1].kind, "ResticRepositoryError")) =>
        /\ pc = "failed"
        /\ raised = probe[1].raised
        /\ ConstructionSpawned = <<ProbeCmd>>
        /\ init_call = None

\* The probe exited 2 (base ResticError) with auto_init set.
C15_Witness ==
    /\ auto_init
    /\ probe # None /\ probe[1].type = "exit" /\ probe[1].returncode = 2
    /\ raised # None /\ raised[1].kind = "ResticError"
    /\ pc = "failed"

\* C16: the constructor spawns nothing before validation has passed, then
\* the probe, then at most one `init`, and nothing else; when the `init` call
\* raises, the constructor fails with exactly that error.
C16_ConstructionOrder ==
    /\ ConstructionSpawned \in {<<>>, <<ProbeCmd>>, <<ProbeCmd, InitCmd>>}
    /\ ConstructionSpawned # <<>> => validate_restic_config(config, lookup) = None
    /\ (probe = None) <=> (ConstructionSpawned = <<>>)
    /\ (init_call # None) <=> (ConstructionSpawned = <<ProbeCmd, InitCmd>>)
    /\ (init_call # None /\ init_call[1].raised # None) =>
           /\ pc = "failed"
           /\ raised = init_call[1].raised
           /\ invokes = 0

\* The `init` call failed with a ResticPasswordError after a probe that
\* failed with a plain ResticRepositoryError.
C16_Witness ==
    /\ ProbeRaised("ResticRepositoryError")
    /\ init_call # None /\ init_call[1].raised # None
    /\ init_call[1].raised[1].kind = "ResticPasswordError"
    /\ raised = init_call[1].raised
    /\ raised # probe[1].raised
    /\ spawned = <<ProbeCmd, InitCmd>>
    /\ pc = "failed"

----------------------------------------------------------------------------
\* Invocations on a constructed instance.

\* The number of processes the constructor spawned, from what it recorded.
SpawnedByConstructor == IF init_call # None THEN 2 ELSE IF probe # None THEN 1 ELSE 0

\* Every invocation so far spawned one process, for the caller's command, and
\* none of them a probe or an `init`.
OneSpawnPerInvoke ==
    /\ Len(spawned) = SpawnedByConstructor + invokes
    /\ \A n \in (SpawnedByConstructor + 1)..Len(spawned) :
           /\ spawned[n][2] \notin {"cat", "init"}
           /\ spawned[n][1] = config.path
    /\ invokes > 0 =>
           /\ last # None
           /\ spawned[Len(spawned)] = last[1].cmd
           /\ last[1].cmd[2] = last[1].command
           /\ raised = last[1].raised

\* C17: on a constructed instance every invocation spawns exactly one
\* process, for the caller's command; validation, probe and `init` are not run
\* again whatever the outcome, and an invocation exiting with code 10 raises
\* ResticRepositoryError, on an auto_init instance too.
C17_InvokeIsPassThrough ==
    pc = "ready" =>
        /\ OneSpawnPerInvoke
        /\ (invokes > 0 /\ last[1].outcome.type = "exit"
                        /\ last[1].outcome.returncode = 10) =>
               /\ raised # None
               /\ raised[1].kind = "ResticRepositoryError"

\* The elements of an Optional args list, none when it is None.
ArgsOf(args) == IF args = None THEN <<>> ELSE args[1]

\* The argument vector the specification gives a call.
ExpectedArgv(call) ==
    <<config.path, call.command>> \o ArgsOf(call.args) \o <<"--json">>

\* C18: every spawned process has the argument vector
\* [path, command, ...args, "--json"]: the path first, "--json" last and there
\* once; the probe is [path, "cat", "config", "--json"] and the init is
\* [path, "init", "--json"].
C18_ArgumentVector ==
    /\ \A n \in DOMAIN spawned :
           LET argv == spawned[n] IN
           /\ Len(argv) >= 3
           /\ argv[1] = config.path
           /\ argv[Len(argv)] = "--json"
           /\ Cardinality({m \in DOMAIN argv : argv[m] = "--json"}) = 1
    /\ probe # None => spawned[1] = <<config.path, "cat", "config", "--json">>
    /\ init_call # None => spawned[2] = <<config.path, "init", "--json">>
    /\ last # None =>
           /\ last[1].cmd = ExpectedArgv(last[1])
           /\ spawned[Len(spawned)] = last[1].cmd

\* A caller's invocation with two different arguments, after a constructor
\* that ran the probe and `init`.
C18_Witness ==
    /\ init_call # None
    /\ invokes > 0
    /\ last # None
    /\ last[1].args = Some(<<"daily", "--tag">>)
    /\ spawned = << <<"restic", "cat", "config", "--json">>,
                    <<"restic", "init", "--json">>,
                    <<"restic", "snapshots", "daily", "--tag", "--json">> >>

\* The latest call left the caller's args list and override map as they were,
\* and what it gave the process is fixed by the configuration, the host
\* environment and the call's own command, args and overrides.
CallIsFresh ==
    last # None =>
        LET call == last[1]
            ov == Overrides(call)
        IN
        /\ call.args_after = call.args
        /\ call.env_after = call.env
        /\ call.cmd = ExpectedArgv(call)
        /\ call.computed_env = get_env(config, system, environ)
        /\ DOMAIN call.child_env = DOMAIN call.computed_env \cup DOMAIN ov
        /\ \A k \in DOMAIN ov : call.child_env[k] = ov[k]
        /\ \A k \in DOMAIN call.computed_env \ DOMAIN ov :
               call.child_env[k] = call.computed_env[k]

\* C19: no step of the wrapper changes the configuration (or auto_init), and
\* every construction or invocation, successful or failing, leaves the
\* caller's args list and override map unchanged and gives the process an
\* argument vector and an environment that depend only on the configuration,
\* the host environment at that call and the call's own args and overrides.
C19_NothingCarriesOver ==
    [][/\ config' = config
       /\ auto_init' = auto_init
       /\ (pc' # pc \/ invokes' # invokes) => CallIsFresh']_vars

\* A second invocation without args or overrides, failing, right after one
\* that had two args, on a host whose environment changed since construction.
C19_Witness ==
    /\ invokes = 2
    /\ Len(spawned[Len(spawned) - 1]) = 5
    /\ last # None
    /\ last[1].args = None /\ last[1].env = None
    /\ last[1].raised # None
    /\ last[1].cmd = <<"restic", "snapshots", "--json">>
    /\ "LANG" \notin DOMAIN last[1].child_env
    /\ "TMPDIR" \in DOMAIN environ
    /\ last[1].computed_env["TMPDIR"] = "host:TMPDIR"
    /\ config = ValidConfig

====
